---- MODULE Spec2Model ----
(***************************************************************************)
(* SnifferPy: a runtime call tracer (src/snifferpy/sniffing.py).           *)
(*                                                                         *)
(* The model has two halves.                                               *)
(*   - The tracer: class Sniffing, translated method by method             *)
(*     (load_config, start_sniffing, stop_sniffing, __enter__, __exit__,   *)
(*     profile_function, is_ignored_module, save_to_json, get_args_dict,   *)
(*     get_call_stack).                                                    *)
(*   - The host runtime that drives it: a single-threaded interpreter      *)
(*     with a frame stack, which delivers to the callback registered with  *)
(*     sys.setprofile the events that sys.setprofile delivers: "call" when *)
(*     a Python frame is entered and "return" when it is left, with        *)
(*     arg = None when it is left because an exception propagates.  A      *)
(*     callback that raises is unregistered by the interpreter and its     *)
(*     exception propagates into the traced program.                       *)
(***************************************************************************)
EXTENDS Integers, Sequences, FiniteSets, TLC

VARIABLES
    config,           \* self.config
    active_calls,     \* self.active_calls : function name -> ActiveCallContext
    snifferpy_calls,  \* self.snifferpy_calls : the call log
    profile,          \* TRUE iff sys.setprofile holds self.profile_function
    store,            \* contents of CALLS_LOG_FILE
    frames,           \* the interpreter's frame stack below <module>, oldest first
    clock,            \* time.perf_counter() / process counters, in ticks
    inv,              \* history: one entry per invocation made by the program
    completer,        \* history: per log record, the invocation whose event completed it
    flushed,          \* history: the document written by the last flush that finished
    scope,            \* position of the embedding code relative to a with-block
    crashed,          \* TRUE once the process has died
    nfail,            \* number of failed writes so far
    nstop,            \* number of stop_sniffing calls so far
    yaml,             \* the state of snifferpy.yaml, which the run does not change
    delivered,        \* history: the last event handed to the callback directly
    threads           \* per thread running the callback concurrently: its position

vars == << config, active_calls, snifferpy_calls, profile, store, frames, clock,
           inv, completer, flushed, scope, crashed, nfail, nstop, yaml, delivered, threads >>

(***************************************************************************)
(* Bounds of the model.                                                    *)
(***************************************************************************)
MaxCalls == 2
MaxWriteFailures == 1
MaxStops == 1

(***************************************************************************)
(* Python values.  Every value carries its type name (type(v).__name__),   *)
(* a numeric payload and its text (str(v)).                                *)
(***************************************************************************)
PyNone == [t |-> "NoneType", n |-> 0, s |-> "None"]
PyInt(i) == [t |-> "int", n |-> i, s |-> ""]
PyFloat(x) == [t |-> "float", n |-> x, s |-> ""]
PyStr(str) == [t |-> "str", n |-> 0, s |-> str]
PyBool(b) == [t |-> "bool", n |-> IF b THEN 1 ELSE 0, s |-> ""]
\* an instance of a class of the traced program; json cannot encode it natively
PyObj == [t |-> "Obj", n |-> 0, s |-> "<Obj>"]

TypeName(v) == PyStr(v.t)

(***************************************************************************)
(* The traced program: its functions (name, declaring module as the        *)
(* sequence of dot-separated segments), the arguments it passes and the    *)
(* values its functions return.                                            *)
(***************************************************************************)
Main == << "__main__" >>
Vendored == << "myapp", "os" >>

Functions ==
    { [fn |-> "subtract", mod |-> Main, ret |-> PyNone],
      [fn |-> "divide", mod |-> Main, ret |-> PyFloat(5)],
      [fn |-> "divide", mod |-> Vendored, ret |-> PyObj] }

Names == { f.fn : f \in Functions }

Arguments == { [a |-> PyInt(10), b |-> PyInt(2)] }

\* The program enables tracing at module level, or inside a function main()
\* that it is still running.
MainFrame == [fn |-> "main", mod |-> Main, ret |-> PyNone, id |-> 0,
              locals |-> [a |-> PyNone, b |-> PyNone]]



(***************************************************************************)
(* Configuration (load_config).  A configuration is a dict: a function     *)
(* from keys to values.  ignored_modules holds a yaml value, which is a    *)
(* list or something else.                                                 *)
(***************************************************************************)
YamlList(items) == [isList |-> TRUE, items |-> items]
YamlScalar(str) == [isList |-> FALSE, items |-> {str}]

EmptyDict == [k \in {} |-> TRUE]

default_config ==
    [ enable |-> TRUE,
      log_level |-> "INFO",
      log_to_file |-> TRUE,
      log_filename |-> "snifferpy_log.txt",
      entry_value |-> FALSE,
      return_value |-> FALSE,
      enable_log |-> TRUE,
      enable_json |-> TRUE,
      ignored_modules |-> YamlList({ "logging", "os", "threading", "builtins",
                                     "snifferpy", "posixpath", "genericpath" }) ]

\* the states snifferpy.yaml can be in when start_sniffing reads it
ConfigFiles == { "missing", "disabled", "custom" }

\* yaml.safe_load of an existing, well-formed file (None for an empty one)
YamlLoad(file) ==
    CASE file = "disabled" -> [enable |-> FALSE, ignored_modules |-> YamlScalar("os")]
      [] file = "custom" -> [return_value |-> TRUE, enable_json |-> FALSE,
                             ignored_modules |-> YamlList({"snifferpy", "logging"})]
      [] OTHER -> EmptyDict

Merge(d, u) ==
    [k \in (DOMAIN d) \cup (DOMAIN u) |-> IF k \in DOMAIN u THEN u[k] ELSE d[k]]

LoadConfig(file) ==
    IF file = "missing"
    THEN default_config
    ELSE LET merged == Merge(default_config, YamlLoad(file))
         IN  IF merged["ignored_modules"].isList
             THEN merged
             ELSE [merged EXCEPT !["ignored_modules"] = default_config["ignored_modules"]]

\* self.config.get(key, default)
ConfigGet(key, default) ==
    IF key \in DOMAIN config THEN config[key] ELSE default

(***************************************************************************)
(* Frame filter, argument capture, stack introspection.                    *)
(***************************************************************************)
\* a filter that compares the whole dotted module name with the ignore list
is_ignored_module_whole_name(frame) ==
    /\ Len(frame.mod) = 1
    /\ frame.mod[1] \in ConfigGet("ignored_modules", YamlList({})).items

is_ignored_module(frame) ==
    \E i \in 1..Len(frame.mod) :
        frame.mod[i] \in ConfigGet("ignored_modules", YamlList({})).items

get_args_dict(frame) ==
    IF ~ConfigGet("entry_value", FALSE)
    THEN [k \in DOMAIN frame.locals |-> TypeName(frame.locals[k])]
    ELSE frame.locals

Reverse(seq) == [i \in 1..Len(seq) |-> seq[Len(seq) + 1 - i]]

\* inspect.stack() called from get_call_stack called from profile_function
\* while the interpreter's stack is stk: innermost frame first
InspectStack(stk) ==
    << "get_call_stack", "profile_function" >>
        \o Reverse([i \in 1..Len(stk) |-> stk[i].fn])
        \o << "<module>" >>

get_call_stack(stk) == Tail(InspectStack(stk))

CalledBy(call_stack) ==
    IF Len(call_stack) > 3
    THEN call_stack[Len(call_stack) - 1]
    ELSE call_stack[Len(call_stack)]

(***************************************************************************)
(* Resource sampler: what psutil and the clocks report at tick t.  CPU     *)
(* time and the I/O counters never decrease; resident memory goes up and   *)
(* down.                                                                   *)
(***************************************************************************)
PerfCounter(t) == t
CpuTimes(t) == t
MemoryInfo(t) == IF t % 2 = 0 THEN 2 ELSE 1
IoCounters(t) == [read_count |-> t, write_count |-> t]

(***************************************************************************)
(* CallRecord and ActiveCallContext as profile_function builds them.       *)
(***************************************************************************)
CallEntry(frame, stk, t) ==
    LET call_stack == get_call_stack(stk)
    IN  [ function |-> frame.fn,
          entry_args |-> get_args_dict(frame),
          return_value |-> PyNone,
          execution_time |-> PyNone,
          timestamp |-> t,
          cpu_usage |-> PyNone,
          memory_usage |-> PyNone,
          io_operations |-> PyNone,
          call_stack |-> call_stack,
          called_by |-> CalledBy(call_stack),
          calls_made |-> << >>,
          success |-> PyNone,
          error_message |-> PyNone ]

CallContext(frame, stk, t) ==
    LET call_stack == get_call_stack(stk)
    IN  [ start_time |-> PerfCounter(t),
          args_dict |-> get_args_dict(frame),
          cpu_start |-> CpuTimes(t),
          mem_start |-> MemoryInfo(t),
          io_start |-> IoCounters(t),
          call_stack |-> call_stack,
          called_by |-> CalledBy(call_stack),
          calls_made |-> << >>,
          success |-> PyNone,
          error_message |-> PyNone ]

\* self.active_calls[name] = ctx  and  self.active_calls.pop(name)
DictSet(d, name, ctx) ==
    [k \in (DOMAIN d) \cup {name} |-> IF k = name THEN ctx ELSE d[k]]
\* a pop that leaves the entry in the dict
DictPop_keep(d, name) == d

DictPop(d, name) ==
    [k \in (DOMAIN d) \ {name} |-> d[k]]

IsPending(call) == call.execution_time = PyNone

\* a completion that takes the most recent pending record with this name
FirstPending_last(log, func_name) ==
    LET hits == { i \in 1..Len(log) :
                    log[i].function = func_name /\ IsPending(log[i]) }
    IN  IF hits = {} THEN 0
        ELSE CHOOSE i \in hits : \A j \in hits : j <= i

\* the record the loops of the return and exception branches stop at:
\* the first one with this name and execution_time None (0: the loop ends
\* without a match)
FirstPending(log, func_name) ==
    LET hits == { i \in 1..Len(log) :
                    log[i].function = func_name /\ IsPending(log[i]) }
    IN  IF hits = {} THEN 0
        ELSE CHOOSE i \in hits : \A j \in hits : i <= j

\* a capture that stores the value whatever return_value says
ReturnValue_raw(arg) == arg

ReturnValue(arg) ==
    IF ConfigGet("return_value", FALSE) THEN arg ELSE TypeName(arg)

ReturnUpdate(call, data, arg, t) ==
    [ call EXCEPT
        !.return_value = ReturnValue(arg),
        !.execution_time = PyFloat(PerfCounter(t) - data.start_time),
        !.cpu_usage = PyFloat(CpuTimes(t) - data.cpu_start),
        !.memory_usage = [t |-> "str", n |-> MemoryInfo(t) - data.mem_start, s |-> "MB"],
        !.io_operations = PyInt(IoCounters(t).read_count - data.io_start.read_count
                                + IoCounters(t).write_count - data.io_start.write_count),
        !.success = PyBool(TRUE),
        !.error_message = PyNone ]

\* a failure branch that samples the resources as the return branch does
ExceptionUpdate_sampled(call, data, arg, t) ==
    [ call EXCEPT
        !.execution_time = PyFloat(PerfCounter(t) - data.start_time),
        !.cpu_usage = PyFloat(CpuTimes(t) - data.cpu_start),
        !.memory_usage = PyNone,
        !.io_operations = PyNone,
        !.success = PyBool(FALSE),
        !.error_message = PyStr(arg.s) ]

ExceptionUpdate(call, data, arg, t) ==
    [ call EXCEPT
        !.execution_time = PyFloat(PerfCounter(t) - data.start_time),
        !.cpu_usage = PyNone,
        !.memory_usage = PyNone,
        !.io_operations = PyNone,
        !.success = PyBool(FALSE),
        !.error_message = PyStr(arg.s) ]

\* a completion loop that does not test execution_time
CompleteCall_any(log, func_name, event, data, arg, t) ==
    LET hits == { i \in 1..Len(log) : log[i].function = func_name }
        i == IF hits = {} THEN 0 ELSE CHOOSE i \in hits : \A j \in hits : i <= j
    IN  IF i = 0 THEN log
        ELSE [log EXCEPT ![i] = IF event = "return"
                                THEN ReturnUpdate(@, data, arg, t)
                                ELSE ExceptionUpdate(@, data, arg, t)]

\* the log after the return / exception branch has run its loop
CompleteCall(log, func_name, event, data, arg, t) ==
    LET i == FirstPending(log, func_name)
    IN  IF i = 0 THEN log
        ELSE [log EXCEPT ![i] = IF event = "return"
                                THEN ReturnUpdate(@, data, arg, t)
                                ELSE ExceptionUpdate(@, data, arg, t)]

(***************************************************************************)
(* Persistence: json.dump(self.snifferpy_calls, f, indent=4, default=str). *)
(* JSON has null, numbers, strings and booleans; a value json cannot       *)
(* encode is replaced by str(value).                                       *)
(***************************************************************************)
JsonNull == [j |-> "null", n |-> 0, s |-> ""]

ToJson(v) ==
    CASE v.t = "NoneType" -> JsonNull
      [] v.t \in {"int", "float"} -> [j |-> "number", n |-> v.n, s |-> ""]
      [] v.t = "bool" -> [j |-> IF v.n = 1 THEN "true" ELSE "false", n |-> 0, s |-> ""]
      [] v.t = "str" -> [j |-> "string", n |-> v.n, s |-> v.s]
      [] OTHER -> [j |-> "string", n |-> 0, s |-> v.s]

JsonRecord(call) ==
    [ function |-> call.function,
      entry_args |-> [k \in DOMAIN call.entry_args |-> ToJson(call.entry_args[k])],
      return_value |-> ToJson(call.return_value),
      execution_time |-> ToJson(call.execution_time),
      timestamp |-> call.timestamp,
      cpu_usage |-> ToJson(call.cpu_usage),
      memory_usage |-> ToJson(call.memory_usage),
      io_operations |-> ToJson(call.io_operations),
      call_stack |-> call.call_stack,
      called_by |-> call.called_by,
      calls_made |-> call.calls_made,
      success |-> ToJson(call.success),
      error_message |-> ToJson(call.error_message) ]

JsonDump(log) == [i \in 1..Len(log) |-> JsonRecord(log[i])]

\* the file: absent, or a document that is complete or cut short
NoFile == [exists |-> FALSE, complete |-> FALSE, recs |-> << >>]
Document(recs) == [exists |-> TRUE, complete |-> TRUE, recs |-> recs]
Truncated(recs, k) == [exists |-> TRUE, complete |-> FALSE, recs |-> SubSeq(recs, 1, k)]

\* a save_to_json that opens the file for appending
save_to_json_append(log, w) ==
    /\ w \in {"ok", "fail"}
    /\ w = "fail" => nfail < MaxWriteFailures
    /\ store' = IF w = "ok" THEN Document(store.recs \o JsonDump(log)) ELSE store
    /\ flushed' = IF w = "ok" THEN store.recs \o JsonDump(log) ELSE flushed
    /\ nfail' = IF w = "fail" THEN nfail + 1 ELSE nfail
    /\ UNCHANGED crashed

\* save_to_json; w is what happens to the write: "ok", or "fail" (open raises
\* and the file is untouched)
save_to_json(log, w) ==
    /\ w \in {"ok", "fail"}
    /\ w = "fail" => nfail < MaxWriteFailures
    /\ store' = IF w = "ok" THEN Document(JsonDump(log)) ELSE store
    /\ flushed' = IF w = "ok" THEN JsonDump(log) ELSE flushed
    /\ nfail' = IF w = "fail" THEN nfail + 1 ELSE nfail
    /\ UNCHANGED crashed

NoWrite == UNCHANGED << store, flushed, crashed, nfail >>


(***************************************************************************)
(* profile_function: the callback.  frame is the frame the event is about, *)
(* stk the interpreter's stack at that moment (frame on top), t the time.  *)
(* Handles says whether the callback gets as far as touching the log, and  *)
(* so as far as the flush whose outcome is w.                              *)
(***************************************************************************)
\* a callback that flushes also when it has nothing to do
profile_function_flush(frame, event, arg, stk, t, w) ==
    IF ~(ConfigGet("enable", TRUE)
         /\ \/ event = "call" /\ ~is_ignored_module(frame)
            \/ event \in {"return", "exception"} /\ frame.fn \in DOMAIN active_calls)
    THEN /\ UNCHANGED << snifferpy_calls, active_calls >>
         /\ save_to_json(snifferpy_calls, w)
    ELSE IF event = "call"
    THEN /\ snifferpy_calls' = Append(snifferpy_calls, CallEntry(frame, stk, t))
         /\ save_to_json(snifferpy_calls', w)
         /\ active_calls' = IF w = "ok"
                            THEN DictSet(active_calls, frame.fn, CallContext(frame, stk, t))
                            ELSE active_calls
    ELSE /\ active_calls' = DictPop(active_calls, frame.fn)
         /\ snifferpy_calls' = CompleteCall(snifferpy_calls, frame.fn, event,
                                            active_calls[frame.fn], arg, t)
         /\ save_to_json(snifferpy_calls', w)

Handles(frame, event) ==
    /\ ConfigGet("enable", TRUE)
    /\ \/ event = "call" /\ ~is_ignored_module(frame)
       \/ event \in {"return", "exception"} /\ frame.fn \in DOMAIN active_calls

profile_function(frame, event, arg, stk, t, w) ==
    IF ~Handles(frame, event)
    THEN /\ UNCHANGED << snifferpy_calls, active_calls >>
         /\ NoWrite
    ELSE IF event = "call"
    THEN /\ snifferpy_calls' = Append(snifferpy_calls, CallEntry(frame, stk, t))
         /\ save_to_json(snifferpy_calls', w)
         /\ active_calls' = IF w = "ok"
                            THEN DictSet(active_calls, frame.fn, CallContext(frame, stk, t))
                            ELSE active_calls
    ELSE /\ active_calls' = DictPop(active_calls, frame.fn)
         /\ snifferpy_calls' = CompleteCall(snifferpy_calls, frame.fn, event,
                                            active_calls[frame.fn], arg, t)
         /\ save_to_json(snifferpy_calls', w)

(***************************************************************************)
(* What the interpreter hands to a callback registered with sys.setprofile *)
(* when a frame is left: always a "return" event, whose arg is the value   *)
(* returned, or None when the frame is left by a propagating exception.    *)
(***************************************************************************)
ExitEvent(exc) == "return"
ExitArg(val, exc) == IF exc THEN PyNone ELSE val

\* the exception a failing function of the traced program raises
ZeroDivisionError == [t |-> "ZeroDivisionError", n |-> 0, s |-> "division by zero"]

\* no event has been handed to the callback directly
NoEvent == [kind |-> "none", fn |-> "", handled |-> FALSE]

(***************************************************************************)
(* The control surface.  The embedding program enables tracing before it   *)
(* calls anything (tests/test_sniff.py), with start_sniffing() or with a   *)
(* with-block; it uses one form or the other.                              *)
(***************************************************************************)
Started == DOMAIN config # {}

HostUnchanged == UNCHANGED << frames, clock, inv, completer, yaml, delivered, threads >>

start_sniffing(file) ==
    /\ config' = LoadConfig(file)
    /\ profile' = IF ~config'["enable"] THEN profile ELSE TRUE
    /\ UNCHANGED << snifferpy_calls, active_calls >>
    /\ NoWrite

\* a stop_sniffing that empties the tracer's tables after saving
stop_sniffing_reset(w) ==
    /\ UNCHANGED config
    /\ IF ~ConfigGet("enable", TRUE)
       THEN UNCHANGED << profile, snifferpy_calls, active_calls >> /\ NoWrite /\ w = "ok"
       ELSE /\ profile' = FALSE
            /\ snifferpy_calls' = << >>
            /\ active_calls' = EmptyDict
            /\ IF ConfigGet("enable_json", TRUE)
               THEN save_to_json(snifferpy_calls, w)
               ELSE NoWrite /\ w = "ok"

\* a stop_sniffing that saves but leaves the callback registered
stop_sniffing_keep_hook(w) ==
    /\ UNCHANGED << config, snifferpy_calls, active_calls, profile >>
    /\ IF ~ConfigGet("enable", TRUE)
       THEN NoWrite /\ w = "ok"
       ELSE IF ConfigGet("enable_json", TRUE)
            THEN save_to_json(snifferpy_calls, w)
            ELSE NoWrite /\ w = "ok"

stop_sniffing(w) ==
    /\ UNCHANGED << config, snifferpy_calls, active_calls >>
    /\ IF ~ConfigGet("enable", TRUE)
       THEN UNCHANGED profile /\ NoWrite /\ w = "ok"
       ELSE /\ profile' = FALSE
            /\ IF ConfigGet("enable_json", TRUE)
               THEN save_to_json(snifferpy_calls, w)
               ELSE NoWrite /\ w = "ok"

\* __exit__ returns None: the exception that left the with-block is re-raised
ExitSuppresses(failing) == FALSE

StartSniffing ==
    /\ ~crashed
    /\ scope.at = "none"
    /\ start_sniffing(yaml)
    /\ HostUnchanged
    /\ UNCHANGED << scope, nstop >>

StopSniffing(w) ==
    /\ ~crashed
    /\ scope.at = "none"
    /\ nstop < MaxStops
    /\ nstop' = nstop + 1
    /\ stop_sniffing(w)
    /\ HostUnchanged
    /\ UNCHANGED scope

\* with Sniffing(): __enter__
ScopeEnter ==
    /\ ~crashed
    /\ scope.at = "none"
    /\ ~Started
    /\ start_sniffing(yaml)
    /\ HostUnchanged
    /\ UNCHANGED nstop
    /\ scope' = [at |-> "inside", depth |-> Len(frames), failing |-> FALSE,
                 raised |-> FALSE]

\* __exit__, reached when the block ends or an exception leaves it (failing)
ScopeExit(failing, w) ==
    /\ ~crashed
    /\ scope.at = "inside"
    /\ Len(frames) = scope.depth
    /\ stop_sniffing(w)
    /\ HostUnchanged
    /\ UNCHANGED nstop
    /\ scope' = [at |-> "left", depth |-> scope.depth, failing |-> failing,
                 raised |-> (w = "fail") \/ (failing /\ ~ExitSuppresses(failing))]

(***************************************************************************)
(* The traced program running on the interpreter.  inv records, for each   *)
(* invocation: its function, how it ended, the log record its entry event  *)
(* created (rec, 0 if none), whether the callback was registered at entry  *)
(* (hooked), the function that invoked it (caller), the log record of the  *)
(* context open under the name in its called_by (parent, 0 if none),       *)
(* whether a traced invocation of the same name was running at its entry   *)
(* (reenters), the names on the interpreter's stack at its entry, oldest   *)
(* first (stack), the value it returns (ret) and the arg the interpreter   *)
(* passed with the event of its exit (arg).                                *)
(***************************************************************************)
\* the record that was appended together with the context open under name
OpenRecord(name) ==
    LET made == { i \in 1..Len(inv) : inv[i].rec # 0 /\ inv[i].fn = name
                                      /\ inv[i].status # "aborted" }
    IN  IF name \notin DOMAIN active_calls \/ made = {} THEN 0
        ELSE inv[CHOOSE i \in made : \A j \in made : j <= i].rec

\* the program calls function f
Call(f, args, w) ==
    LET frame == [fn |-> f.fn, mod |-> f.mod, ret |-> f.ret, id |-> Len(inv) + 1,
                  locals |-> args]
        stk == Append(frames, frame)
        acts == profile /\ Handles(frame, "call")
        raises == acts /\ w = "fail"
        called_by == CalledBy(get_call_stack(stk))
    IN  /\ ~crashed
        /\ Started
        /\ Len(inv) < MaxCalls
        /\ w # "ok" => acts
        /\ IF profile
           THEN profile_function(frame, "call", PyNone, stk, clock, w)
           ELSE UNCHANGED << snifferpy_calls, active_calls >> /\ NoWrite
        /\ profile' = IF raises THEN FALSE ELSE profile
        /\ frames' = IF raises THEN frames ELSE stk
        /\ clock' = clock + 1
        /\ inv' = Append(inv, [fn |-> f.fn, mod |-> f.mod,
                               status |-> IF raises THEN "aborted" ELSE "running",
                               rec |-> IF acts THEN Len(snifferpy_calls) + 1 ELSE 0,
                               hooked |-> profile,
                               caller |-> IF frames = << >> THEN "<module>"
                                          ELSE frames[Len(frames)].fn,
                               parent |-> IF acts THEN OpenRecord(called_by) ELSE 0,
                               reenters |-> acts /\ \E i \in 1..Len(inv) :
                                                /\ inv[i].status = "running"
                                                /\ inv[i].rec # 0
                                                /\ inv[i].fn = f.fn,
                               stack |-> << "<module>" >>
                                            \o [i \in 1..Len(stk) |-> stk[i].fn],
                               ret |-> f.ret,
                               arg |-> PyNone])
        /\ completer' = IF acts THEN Append(completer, 0) ELSE completer
        /\ UNCHANGED << config, scope, nstop, yaml, delivered, threads >>

\* the top frame is left: it returns val, or (exc) an exception propagates out of it
Leave(val, exc, w) ==
    LET frame == frames[Len(frames)]
        acts == profile /\ Handles(frame, ExitEvent(exc))
        raises == acts /\ w = "fail"
        hit == FirstPending(snifferpy_calls, frame.fn)
    IN  /\ ~crashed
        /\ frames # << >>
        /\ frame.id # 0
        /\ scope.at = "inside" => Len(frames) > scope.depth
        /\ w # "ok" => acts
        /\ IF profile
           THEN profile_function(frame, ExitEvent(exc), ExitArg(val, exc), frames, clock, w)
           ELSE UNCHANGED << snifferpy_calls, active_calls >> /\ NoWrite
        /\ profile' = IF raises THEN FALSE ELSE profile
        /\ frames' = SubSeq(frames, 1, Len(frames) - 1)
        /\ clock' = clock + 1
        /\ inv' = [inv EXCEPT ![frame.id].status = IF exc \/ raises THEN "raised" ELSE "returned",
                               ![frame.id].arg = ExitArg(val, exc)]
        /\ completer' = IF acts /\ hit # 0
                        THEN [completer EXCEPT ![hit] = frame.id]
                        ELSE completer
        /\ UNCHANGED << config, scope, nstop, yaml, delivered, threads >>

Return(w) == Leave(frames[Len(frames)].ret, FALSE, w)

Unwind(w) == Leave(ZeroDivisionError, TRUE, w)

\* The process dies.  Its memory is gone; what is left is the file.  It dies
\* between two events (the file is as the last write left it) or inside
\* save_to_json, after open() has truncated the file and before the document
\* is complete on disk: any prefix of the document may have reached the disk.
Dead ==
    /\ config' = EmptyDict
    /\ active_calls' = EmptyDict
    /\ snifferpy_calls' = << >>
    /\ profile' = FALSE
    /\ frames' = << >>
    /\ clock' = 0
    /\ inv' = << >>
    /\ completer' = << >>
    /\ scope' = [at |-> "none", depth |-> 0, failing |-> FALSE, raised |-> FALSE]
    /\ nfail' = 0
    /\ nstop' = 0
    /\ crashed' = TRUE
    /\ UNCHANGED << flushed, yaml, delivered, threads >>

Crash ==
    /\ ~crashed
    /\ Dead
    /\ UNCHANGED store

\* log: the list save_to_json was writing
CrashInFlush(log) ==
    /\ Dead
    /\ \E k \in 0..Len(log) : store' = Truncated(JsonDump(log), k)

\* the flushes of profile_function and stop_sniffing during which it can die
CrashInCall(f, args) ==
    LET frame == [fn |-> f.fn, mod |-> f.mod, ret |-> f.ret, id |-> Len(inv) + 1,
                  locals |-> args]
        stk == Append(frames, frame)
    IN  /\ ~crashed
        /\ Started
        /\ Len(inv) < MaxCalls
        /\ profile /\ Handles(frame, "call")
        /\ CrashInFlush(Append(snifferpy_calls, CallEntry(frame, stk, clock)))

CrashInLeave(exc) ==
    LET frame == frames[Len(frames)]
    IN  /\ ~crashed
        /\ frames # << >>
        /\ frame.id # 0
        /\ scope.at = "inside" => Len(frames) > scope.depth
        /\ profile /\ Handles(frame, ExitEvent(exc))
        /\ CrashInFlush(CompleteCall(snifferpy_calls, frame.fn, ExitEvent(exc),
                                     active_calls[frame.fn],
                                     ExitArg(IF exc THEN ZeroDivisionError ELSE frame.ret, exc),
                                     clock))

CrashInStop ==
    /\ ~crashed
    /\ scope.at = "none" => nstop < MaxStops
    /\ scope.at # "left"
    /\ scope.at = "inside" => Len(frames) = scope.depth
    /\ ConfigGet("enable", TRUE) /\ ConfigGet("enable_json", TRUE)
    /\ CrashInFlush(snifferpy_calls)

Init ==
    /\ config = EmptyDict
    /\ active_calls = EmptyDict
    /\ snifferpy_calls = << >>
    /\ profile = FALSE
    /\ store = NoFile
    /\ frames \in { << >>, << MainFrame >> }
    /\ clock = 0
    /\ inv = << >>
    /\ completer = << >>
    /\ flushed = << >>
    /\ scope = [at |-> "none", depth |-> 0, failing |-> FALSE, raised |-> FALSE]
    /\ crashed = FALSE
    /\ nfail = 0
    /\ nstop = 0
    /\ yaml \in ConfigFiles
    /\ delivered = NoEvent
    /\ threads = << >>

Outcomes == {"ok", "fail"}

Next ==
    \/ StartSniffing
    \/ \E w \in Outcomes : StopSniffing(w)
    \/ ScopeEnter
    \/ \E failing \in BOOLEAN, w \in Outcomes : ScopeExit(failing, w)
    \/ \E f \in Functions, args \in Arguments, w \in Outcomes : Call(f, args, w)
    \/ \E w \in Outcomes : Return(w)
    \/ \E w \in Outcomes : Unwind(w)
    \/ Crash
    \/ \E f \in Functions, args \in Arguments : CrashInCall(f, args)
    \/ \E exc \in BOOLEAN : CrashInLeave(exc)
    \/ CrashInStop

Spec == Init /\ [][Next]_vars

(***************************************************************************)
(* The callback on its own.  profile_function is handed events one at a    *)
(* time, any of "call", "return" and "exception" for any function and in   *)
(* any order, after start_sniffing has loaded the configuration: every     *)
(* sequence of events a host runtime can deliver, the "exception" events   *)
(* its third branch is written for included.                               *)
(***************************************************************************)
MaxEvents == 5

Deliver(f, kind, arg, w) ==
    LET frame == [fn |-> f.fn, mod |-> f.mod, ret |-> f.ret, id |-> 0,
                  locals |-> CHOOSE args \in Arguments : TRUE]
    IN  /\ clock < MaxEvents
        /\ w # "ok" => Handles(frame, kind)
        /\ profile_function(frame, kind, arg, << frame >>, clock, w)
        /\ clock' = clock + 1
        /\ delivered' = [kind |-> kind, fn |-> f.fn, handled |-> Handles(frame, kind)]
        /\ UNCHANGED << config, profile, frames, inv, completer, scope, nstop, yaml,
                        threads >>

OnCall(f, w) == Deliver(f, "call", PyNone, w)
OnReturn(f, w) == Deliver(f, "return", f.ret, w)
OnException(f, w) == Deliver(f, "exception", ZeroDivisionError, w)

HandlerInit ==
    /\ yaml \in ConfigFiles
    /\ config = LoadConfig(yaml)
    /\ profile = config["enable"]
    /\ active_calls = EmptyDict
    /\ snifferpy_calls = << >>
    /\ store = NoFile
    /\ frames = << >>
    /\ clock = 0
    /\ inv = << >>
    /\ completer = << >>
    /\ flushed = << >>
    /\ scope = [at |-> "none", depth |-> 0, failing |-> FALSE, raised |-> FALSE]
    /\ crashed = FALSE
    /\ nfail = 0
    /\ nstop = 0
    /\ delivered = NoEvent
    /\ threads = << >>

HandlerNext ==
    \/ \E f \in Functions, w \in Outcomes : OnCall(f, w)
    \/ \E f \in Functions, w \in Outcomes : OnReturn(f, w)
    \/ \E f \in Functions, w \in Outcomes : OnException(f, w)

HandlerSpec == HandlerInit /\ [][HandlerNext]_vars

(***************************************************************************)
(* The callback in a multi-threaded host.  Two threads have the callback   *)
(* registered and share one Sniffing object; each calls one function and   *)
(* returns from it.  profile_function takes no lock, so the interpreter    *)
(* may switch threads between any two of its statements, and the file I/O  *)
(* of save_to_json releases the interpreter lock: each statement below is  *)
(* one step.  A thread's file object buffers the document and writes it at *)
(* offset 0 when the with-block closes it.                                  *)
(***************************************************************************)
Threads == {1, 2}

ThreadFunction(t) ==
    CHOOSE f \in Functions : f.mod = Main /\ f.fn = (IF t = 1 THEN "subtract" ELSE "divide")

ThreadFrame(t) ==
    [fn |-> ThreadFunction(t).fn, mod |-> Main, ret |-> ThreadFunction(t).ret, id |-> t,
     locals |-> CHOOSE args \in Arguments : TRUE]

\* buf written at offset 0 of a file that another open() may have left longer
Overwrite(file, buf) ==
    IF Len(buf) >= Len(file.recs)
    THEN Document(buf)
    ELSE [exists |-> TRUE, complete |-> FALSE,
          recs |-> buf \o SubSeq(file.recs, Len(buf) + 1, Len(file.recs))]

At(t, pc) == threads[t].pc = pc
Goto(t, pc) == threads' = [threads EXCEPT ![t].pc = pc]

ThreadUnchanged ==
    UNCHANGED << config, profile, frames, clock, inv, completer, flushed, scope,
                 crashed, nfail, nstop, yaml, delivered >>

\* self.snifferpy_calls.append(call_entry)
T_Append(t) ==
    /\ At(t, "idle")
    /\ Handles(ThreadFrame(t), "call")
    /\ snifferpy_calls' = Append(snifferpy_calls,
                                 CallEntry(ThreadFrame(t), << ThreadFrame(t) >>, clock))
    /\ Goto(t, "e_appended")
    /\ UNCHANGED << active_calls, store >>
    /\ ThreadUnchanged

\* open(CALLS_LOG_FILE, 'w')
T_Open(t) ==
    /\ At(t, "e_appended") \/ At(t, "x_updated")
    /\ store' = Truncated(store.recs, 0)
    /\ Goto(t, IF At(t, "e_appended") THEN "e_opened" ELSE "x_opened")
    /\ UNCHANGED << active_calls, snifferpy_calls >>
    /\ ThreadUnchanged

\* json.dump(self.snifferpy_calls, f, indent=4, default=str)
T_Dump(t) ==
    /\ At(t, "e_opened") \/ At(t, "x_opened")
    /\ threads' = [threads EXCEPT
                     ![t].pc = IF At(t, "e_opened") THEN "e_dumped" ELSE "x_dumped",
                     ![t].buf = JsonDump(snifferpy_calls)]
    /\ UNCHANGED << active_calls, snifferpy_calls, store >>
    /\ ThreadUnchanged

\* the with-block ends: the file is flushed and closed
T_Close(t) ==
    /\ At(t, "e_dumped") \/ At(t, "x_dumped")
    /\ store' = Overwrite(store, threads[t].buf)
    /\ Goto(t, IF At(t, "e_dumped") THEN "e_closed" ELSE "done")
    /\ UNCHANGED << active_calls, snifferpy_calls >>
    /\ ThreadUnchanged

\* self.active_calls[func_name] = {...}; the call then runs
T_SetContext(t) ==
    /\ At(t, "e_closed")
    /\ active_calls' = DictSet(active_calls, ThreadFrame(t).fn,
                               CallContext(ThreadFrame(t), << ThreadFrame(t) >>, clock))
    /\ Goto(t, "running")
    /\ UNCHANGED << snifferpy_calls, store >>
    /\ ThreadUnchanged

\* if func_name in self.active_calls: data = self.active_calls.pop(func_name)
T_Pop(t) ==
    /\ At(t, "running")
    /\ IF Handles(ThreadFrame(t), "return")
       THEN /\ active_calls' = DictPop(active_calls, ThreadFrame(t).fn)
            /\ threads' = [threads EXCEPT ![t].pc = "x_popped",
                                          ![t].data = << active_calls[ThreadFrame(t).fn] >>]
       ELSE /\ Goto(t, "done")
            /\ UNCHANGED active_calls
    /\ UNCHANGED << snifferpy_calls, store >>
    /\ ThreadUnchanged

\* for call in self.snifferpy_calls: ... call.update(...); break
T_Update(t) ==
    /\ At(t, "x_popped")
    /\ snifferpy_calls' = CompleteCall(snifferpy_calls, ThreadFrame(t).fn, "return",
                                       threads[t].data[1], ThreadFrame(t).ret, clock)
    /\ Goto(t, "x_updated")
    /\ UNCHANGED << active_calls, store >>
    /\ ThreadUnchanged

ThreadInit ==
    /\ yaml = "missing"
    /\ config = LoadConfig(yaml)
    /\ profile = TRUE
    /\ active_calls = EmptyDict
    /\ snifferpy_calls = << >>
    /\ store = NoFile
    /\ frames = << >>
    /\ clock = 0
    /\ inv = << >>
    /\ completer = << >>
    /\ flushed = << >>
    /\ scope = [at |-> "none", depth |-> 0, failing |-> FALSE, raised |-> FALSE]
    /\ crashed = FALSE
    /\ nfail = 0
    /\ nstop = 0
    /\ delivered = NoEvent
    /\ threads = [t \in Threads |-> [pc |-> "idle", buf |-> << >>, data |-> << >>]]

ThreadNext ==
    \E t \in Threads :
        \/ T_Append(t)
        \/ T_Open(t)
        \/ T_Dump(t)
        \/ T_Close(t)
        \/ T_SetContext(t)
        \/ T_Pop(t)
        \/ T_Update(t)

ThreadSpec == ThreadInit /\ [][ThreadNext]_vars

TypeOK ==
    /\ profile \in BOOLEAN
    /\ crashed \in BOOLEAN
    /\ Len(completer) = Len(snifferpy_calls)
    /\ Len(inv) <= MaxCalls


(***************************************************************************)
(* Properties.                                                             *)
(***************************************************************************)
Records == 1..Len(snifferpy_calls)
Invocations == 1..Len(inv)
IsTerminal(call) == call.success \in {PyBool(TRUE), PyBool(FALSE)}

\* the callback has been registered since tracing started and no write failed:
\* every event of every invocation made so far was delivered and handled
TracedRun == profile /\ nstop = 0 /\ nfail = 0

\* C1: in a single-threaded run with tracing enabled, every invocation that
\* passes the frame filter has its own record, which is pending exactly while
\* that invocation is running and terminal once it has exited; once every
\* invocation has returned, no record is pending and the active-call table
\* is empty.
C1_OwnRecordPerInvocation ==
    TracedRun =>
        /\ \A i \in Invocations :
             inv[i].rec # 0 =>
                /\ inv[i].status = "running" => IsPending(snifferpy_calls[inv[i].rec])
                /\ inv[i].status # "running" => IsTerminal(snifferpy_calls[inv[i].rec])
        /\ (\A i \in Invocations : inv[i].status # "running") =>
                /\ DOMAIN active_calls = {}
                /\ \A k \in Records : ~IsPending(snifferpy_calls[k])

\* C2: when a traced call ends because an exception propagates out of it,
\* exactly one record of that function ends with success false, a non-null
\* error_message, null resource fields and a non-null execution_time, and the
\* context is removed.
FailedRecords(name) ==
    { k \in Records : snifferpy_calls[k].function = name
                        /\ snifferpy_calls[k].success = PyBool(FALSE) }
RaisedInvocations(name) ==
    { i \in Invocations : inv[i].fn = name /\ inv[i].rec # 0 /\ inv[i].status = "raised" }

C2_FailureRecorded ==
    TracedRun =>
        \A name \in Names :
            /\ Cardinality(FailedRecords(name)) = Cardinality(RaisedInvocations(name))
            /\ \A k \in FailedRecords(name) :
                 /\ snifferpy_calls[k].error_message # PyNone
                 /\ snifferpy_calls[k].execution_time # PyNone
                 /\ snifferpy_calls[k].cpu_usage = PyNone
                 /\ snifferpy_calls[k].memory_usage = PyNone
                 /\ snifferpy_calls[k].io_operations = PyNone
            /\ (\A i \in Invocations : inv[i].fn = name => inv[i].status # "running")
                 => name \notin DOMAIN active_calls

\* C3: a call whose called_by names an open context is appended to that
\* context's calls_made, and at the caller's own exit its record carries the
\* callees in call order.
CalleesOf(k) ==
    LET F[j \in 0..Len(inv)] ==
            IF j = 0 THEN << >>
            ELSE IF inv[j].parent = k THEN Append(F[j - 1], inv[j].fn) ELSE F[j - 1]
    IN  F[Len(inv)]

C3_CallsMadeInCallOrder ==
    TracedRun =>
        \A i \in Invocations :
            (inv[i].rec # 0 /\ completer[inv[i].rec] = i) =>
                snifferpy_calls[inv[i].rec].calls_made = CalleesOf(inv[i].rec)

\* C4: called_by is the function that directly invoked the call when the
\* introspected stack has more than 3 entries, and the outermost ancestor
\* otherwise.
C4_CalledByImmediateCaller ==
    \A i \in Invocations :
        inv[i].rec # 0 =>
            LET call == snifferpy_calls[inv[i].rec]
            IN  IF Len(call.call_stack) > 3
                THEN call.called_by = inv[i].caller
                ELSE call.called_by = "<module>"


\* C5: a call whose module identifier has a dot-separated segment in
\* ignored_modules creates no record and no context, and its name reaches no
\* record's calls_made: its entry leaves the log and the table as they were.
HasIgnoredSegment(mod) ==
    { mod[i] : i \in 1..Len(mod) } \cap ConfigGet("ignored_modules", YamlList({})).items # {}

C5_IgnoredModuleInvisible ==
    [][ (Len(inv') = Len(inv) + 1 /\ HasIgnoredSegment(inv'[Len(inv')].mod))
            => /\ snifferpy_calls' = snifferpy_calls
               /\ DOMAIN active_calls' = DOMAIN active_calls
               /\ \A name \in DOMAIN active_calls : active_calls'[name] = active_calls[name]
      ]_vars

C5_Witness ==
    /\ Len(snifferpy_calls) > 0
    /\ \E i \in Invocations :
         inv[i].hooked /\ inv[i].mod = Vendored /\ HasIgnoredSegment(inv[i].mod)
                       /\ inv[i].rec = 0

C7_CrashKeepsFlushedRecords ==
    crashed =>
        \A k \in 1..Len(flushed) :
            /\ k <= Len(store.recs)
            /\ store.recs[k].function = flushed[k].function
            /\ store.recs[k].entry_args = flushed[k].entry_args
            /\ store.recs[k].timestamp = flushed[k].timestamp
            /\ store.recs[k].call_stack = flushed[k].call_stack
            /\ store.recs[k].called_by = flushed[k].called_by

\* C8: after stop_sniffing followed by start_sniffing the active-call table
\* is empty.
C8_FreshTableAfterRestart ==
    [][ (nstop > 0 /\ ~profile /\ profile') => DOMAIN active_calls' = {} ]_vars

\* C9: stop_sniffing changes no record: the log in memory is unchanged, a
\* record that was terminal in the persisted log is identical afterwards,
\* every persisted record is afterwards what it was or what the log holds,
\* and a record of a call in flight stays pending in the persisted log.
StopStep ==
    \/ nstop' = nstop + 1
    \/ scope.at = "inside" /\ scope'.at = "left"

C9_StopChangesNoRecord ==
    [][ StopStep =>
          /\ snifferpy_calls' = snifferpy_calls
          /\ \A k \in 1..Len(store.recs) :
                store.recs[k].success # JsonNull
                    => k <= Len(store'.recs) /\ store'.recs[k] = store.recs[k]
          /\ \A k \in 1..Len(store'.recs) :
                /\ k <= Len(snifferpy_calls)
                /\ \/ store'.recs[k] = JsonRecord(snifferpy_calls[k])
                   \/ k <= Len(store.recs) /\ store'.recs[k] = store.recs[k]
                /\ IsPending(snifferpy_calls[k]) => store'.recs[k].execution_time = JsonNull
      ]_vars

C9_Witness ==
    /\ nstop = 1 /\ ~profile /\ ~crashed
    /\ store = Document(JsonDump(snifferpy_calls))
    /\ \E k \in Records : IsTerminal(snifferpy_calls[k])
    /\ \E i \in Invocations :
         inv[i].status = "running" /\ inv[i].rec # 0
                                   /\ IsPending(snifferpy_calls[inv[i].rec])

\* C10 as stated: the scoped form attaches the callback on entry and, on every
\* exit path and for every configuration, detaches it and flushes the log; a
\* failure that left the scope is not suppressed.
EnterStep == scope.at = "none" /\ scope'.at = "inside"
ExitStep == scope.at = "inside" /\ scope'.at = "left"

C10_ScopeAlwaysDetachesAndFlushes ==
    [][ /\ EnterStep => profile'
        /\ ExitStep =>
             /\ ~profile'
             /\ nfail' = nfail => store' = Document(JsonDump(snifferpy_calls'))
             /\ scope'.failing => scope'.raised
      ]_vars

\* C10 amended: with enable true the scoped form attaches the callback on
\* entry and detaches it on every exit path, and the exit flushes the log when
\* enable_json is true and the write succeeds; with enable false it neither
\* attaches nor detaches nor writes.  A failure that left the scope is not
\* suppressed.
C10_ScopeDetachesWhenEnabled ==
    [][ /\ EnterStep => (profile' <=> config'["enable"])
        /\ ExitStep =>
             /\ ConfigGet("enable", TRUE) => ~profile'
             /\ (ConfigGet("enable", TRUE) /\ ConfigGet("enable_json", TRUE)
                    /\ nfail' = nfail)
                  => store' = Document(JsonDump(snifferpy_calls'))
             /\ ~(ConfigGet("enable", TRUE) /\ ConfigGet("enable_json", TRUE))
                  => store' = store
             /\ ~ConfigGet("enable", TRUE) => profile' = profile
             /\ scope'.failing => scope'.raised
      ]_vars

C10_Witness ==
    /\ scope.at = "left" /\ scope.failing /\ scope.raised
    /\ ~profile
    /\ Len(snifferpy_calls) > 0
    /\ store = Document(JsonDump(snifferpy_calls))

\* C11: when the write fails during an entry or exit event, the error does
\* not reach the traced program and tracing continues in memory: the callback
\* stays registered, an entry still appends its record and creates its
\* context and the call goes on, an exit still completes its record.
EventStep == ~StopStep /\ ~crashed'

C11_WriteFailureContained ==
    [][ (nfail' = nfail + 1 /\ EventStep) =>
          /\ profile' = profile
          /\ Len(inv') = Len(inv) + 1 =>
               /\ inv'[Len(inv')].status = "running"
               /\ Len(snifferpy_calls') = Len(snifferpy_calls) + 1
               /\ inv'[Len(inv')].fn \in DOMAIN active_calls'
               /\ active_calls'[inv'[Len(inv')].fn].start_time = PerfCounter(clock)
          /\ Len(inv') = Len(inv) =>
               /\ frames[Len(frames)].fn \notin DOMAIN active_calls'
               /\ \E k \in Records :
                    IsPending(snifferpy_calls[k]) /\ ~IsPending(snifferpy_calls'[k])
      ]_vars

\* C12 as stated: in an enabled trace, for every configuration, each completed
\* record has execution_time >= 0 and each record with success true has a
\* non-null return_value.
Completed == { k \in Records : ~IsPending(snifferpy_calls[k]) }

C12_SuccessHasReturnValue ==
    \A k \in Completed :
        /\ snifferpy_calls[k].execution_time.n >= 0
        /\ snifferpy_calls[k].success = PyBool(TRUE)
             => snifferpy_calls[k].return_value # PyNone

\* C12 amended: each completed record has execution_time >= 0; a record with
\* success true holds, with return_value capture off, the type name of the
\* value its exit event delivered, which is never null, and with capture on
\* that value itself, which is null when the value is None.
C12_ReturnValueAsCaptured ==
    \A k \in Completed :
        /\ snifferpy_calls[k].execution_time.n >= 0
        /\ snifferpy_calls[k].success = PyBool(TRUE) =>
             /\ completer[k] # 0
             /\ LET exit_arg == inv[completer[k]].arg
                IN  IF ConfigGet("return_value", FALSE)
                    THEN snifferpy_calls[k].return_value = exit_arg
                    ELSE /\ snifferpy_calls[k].return_value = PyStr(exit_arg.t)
                         /\ snifferpy_calls[k].return_value # PyNone

C12_Witness ==
    /\ ~ConfigGet("return_value", FALSE)
    /\ \E k \in Completed :
         /\ snifferpy_calls[k].success = PyBool(TRUE)
         /\ snifferpy_calls[k].return_value = PyStr("NoneType")
         /\ snifferpy_calls[k].execution_time.n > 0
         /\ inv[completer[k]].status = "returned"

\* C13: with the default configuration, in a single-threaded program whose
\* traced calls never have two invocations of one name in flight at once and
\* all return normally, after the last exit event the log holds exactly one
\* record per traced call in entry order, each with success true and
\* return_value the type name of the value returned, and the active-call
\* table is empty.
PassesFilter(i) == ~HasIgnoredSegment(inv[i].mod)
TracedCalls == { i \in Invocations : PassesFilter(i) }

DefaultRunOver ==
    /\ yaml = "missing"
    /\ TracedRun
    /\ Invocations # {}
    /\ \A i \in Invocations : inv[i].hooked /\ inv[i].status = "returned"
    /\ \A i \in TracedCalls : ~inv[i].reenters

C13_DefaultRunLogsEveryCall ==
    DefaultRunOver =>
        /\ Len(snifferpy_calls) = Cardinality(TracedCalls)
        /\ \A i \in TracedCalls :
             /\ inv[i].rec = Cardinality({ j \in TracedCalls : j <= i })
             /\ snifferpy_calls[inv[i].rec].function = inv[i].fn
             /\ snifferpy_calls[inv[i].rec].success = PyBool(TRUE)
             /\ snifferpy_calls[inv[i].rec].return_value = PyStr(inv[i].ret.t)
        /\ DOMAIN active_calls = {}

\* C14: when the configuration has enable_json false the call-log file is
\* not written: no entry or exit event and no stop_sniffing changes it.
C14_NoReportWhenJsonDisabled ==
    [][ (Started /\ ~ConfigGet("enable_json", TRUE) /\ ~crashed')
            => store' = store ]_vars

\* C15: an exit event for function name f while a context for f is open
\* removes that context and modifies exactly one record, the lowest-index
\* record with function f and execution_time null: it sets return_value,
\* execution_time, the three resource deltas, success true and error_message
\* null.  Every other record and every other context is unchanged.
ExitEventStep ==
    /\ ~crashed'
    /\ Len(frames') = Len(frames) - 1
    /\ profile /\ ConfigGet("enable", TRUE)

PendingOf(name) ==
    { k \in Records : snifferpy_calls[k].function = name
                        /\ snifferpy_calls[k].execution_time = PyNone }

C15_ExitCompletesFirstPending ==
    [][ (ExitEventStep /\ frames[Len(frames)].fn \in DOMAIN active_calls) =>
          LET f == frames[Len(frames)].fn
          IN  /\ DOMAIN active_calls' = DOMAIN active_calls \ {f}
              /\ \A name \in DOMAIN active_calls' : active_calls'[name] = active_calls[name]
              /\ Len(snifferpy_calls') = Len(snifferpy_calls)
              /\ PendingOf(f) # {}
              /\ \A k \in Records :
                   IF k \in PendingOf(f) /\ \A j \in PendingOf(f) : k <= j
                   THEN /\ snifferpy_calls'[k].success = PyBool(TRUE)
                        /\ snifferpy_calls'[k].error_message = PyNone
                        /\ snifferpy_calls'[k].execution_time # PyNone
                        /\ snifferpy_calls'[k].return_value
                             = (IF ConfigGet("return_value", FALSE)
                                THEN inv'[frames[Len(frames)].id].arg
                                ELSE PyStr(inv'[frames[Len(frames)].id].arg.t))
                        /\ snifferpy_calls'[k].cpu_usage # PyNone
                        /\ snifferpy_calls'[k].memory_usage # PyNone
                        /\ snifferpy_calls'[k].io_operations # PyNone
                        /\ snifferpy_calls'[k].function = snifferpy_calls[k].function
                        /\ snifferpy_calls'[k].entry_args = snifferpy_calls[k].entry_args
                        /\ snifferpy_calls'[k].timestamp = snifferpy_calls[k].timestamp
                        /\ snifferpy_calls'[k].call_stack = snifferpy_calls[k].call_stack
                        /\ snifferpy_calls'[k].called_by = snifferpy_calls[k].called_by
                        /\ snifferpy_calls'[k].calls_made = snifferpy_calls[k].calls_made
                   ELSE snifferpy_calls'[k] = snifferpy_calls[k]
      ]_vars

\* after the exit of the inner of two nested calls of one name: the first of
\* the two records is complete, the second still pending, the context gone
C15_Witness ==
    /\ Len(snifferpy_calls) = 2
    /\ snifferpy_calls[1].function = snifferpy_calls[2].function
    /\ snifferpy_calls[1].success = PyBool(TRUE)
    /\ completer[1] = 2
    /\ IsPending(snifferpy_calls[2])
    /\ snifferpy_calls[1].function \notin DOMAIN active_calls

\* C20: the call_stack stored on every record lists the function names
\* executing at entry time, oldest call first and innermost last, and contains
\* neither the frame of the interception layer (profile_function) nor the
\* frame of the introspector (get_call_stack).
NamesIn(seq) == { seq[i] : i \in 1..Len(seq) }

C20_CallStackOldestFirst ==
    \A i \in Invocations :
        inv[i].rec # 0 =>
            /\ snifferpy_calls[inv[i].rec].call_stack = inv[i].stack
            /\ NamesIn(snifferpy_calls[inv[i].rec].call_stack)
                   \cap {"profile_function", "get_call_stack"} = {}

\* C16: an exit or failure event for a function name with no open context
\* is a no-op: the call log, the active-call table and the persisted store
\* are unchanged.
DeliveryStep == clock' = clock + 1 /\ delivered'.kind # "none"

C16_UnmatchedExitIsNoOp ==
    [][ (DeliveryStep /\ delivered'.kind \in {"return", "exception"}
                      /\ delivered'.fn \notin DOMAIN active_calls)
            => /\ snifferpy_calls' = snifferpy_calls
               /\ active_calls' = active_calls
               /\ store' = store ]_vars

\* a failure event found no context while another name's context was open
\* and the store held a log that has since been completed in part
C16_Witness ==
    /\ delivered.kind = "exception" /\ ~delivered.handled
    /\ ConfigGet("enable", TRUE)
    /\ DOMAIN active_calls # {}
    /\ \E k \in Records : snifferpy_calls[k].function = delivered.fn
                            /\ IsPending(snifferpy_calls[k])
    /\ store = Document(JsonDump(snifferpy_calls))

\* C18: the call log is append-only except for one in-place completion per
\* record: its length never decreases, existing records keep their position
\* and their entry-time fields, and a record that has reached a terminal
\* state is never modified again.
C18_LogAppendOnly ==
    [][ ~crashed' =>
          /\ Len(snifferpy_calls') >= Len(snifferpy_calls)
          /\ \A k \in Records :
               /\ snifferpy_calls'[k].function = snifferpy_calls[k].function
               /\ snifferpy_calls'[k].entry_args = snifferpy_calls[k].entry_args
               /\ snifferpy_calls'[k].timestamp = snifferpy_calls[k].timestamp
               /\ snifferpy_calls'[k].call_stack = snifferpy_calls[k].call_stack
               /\ snifferpy_calls'[k].called_by = snifferpy_calls[k].called_by
               /\ IsTerminal(snifferpy_calls[k])
                    => snifferpy_calls'[k] = snifferpy_calls[k]
      ]_vars

\* two calls of one name, the first completed by an exit and the second by a
\* failure delivered later
C18_Witness ==
    /\ Len(snifferpy_calls) = 2
    /\ snifferpy_calls[1].function = snifferpy_calls[2].function
    /\ snifferpy_calls[1].success = PyBool(TRUE)
    /\ snifferpy_calls[2].success = PyBool(FALSE)
    /\ snifferpy_calls[1].execution_time.n < snifferpy_calls[2].timestamp
    /\ delivered.kind = "exception" /\ delivered.handled

\* C19: each record's fields are consistent with its state: success is null
\* exactly when execution_time is null; while pending, return_value,
\* cpu_usage, memory_usage, io_operations and error_message are null;
\* error_message is non-null only when success is false; a record with
\* success false has null resource fields.
C19_FieldsMatchState ==
    \A k \in Records :
        LET call == snifferpy_calls[k]
        IN  /\ call.success = PyNone <=> call.execution_time = PyNone
            /\ IsPending(call) =>
                 /\ call.return_value = PyNone
                 /\ call.cpu_usage = PyNone
                 /\ call.memory_usage = PyNone
                 /\ call.io_operations = PyNone
                 /\ call.error_message = PyNone
            /\ call.error_message # PyNone => call.success = PyBool(FALSE)
            /\ call.success = PyBool(FALSE) =>
                 /\ call.cpu_usage = PyNone
                 /\ call.memory_usage = PyNone
                 /\ call.io_operations = PyNone

C19_Witness ==
    /\ \E k \in Records : IsPending(snifferpy_calls[k])
    /\ \E k \in Records : /\ snifferpy_calls[k].success = PyBool(TRUE)
                          /\ snifferpy_calls[k].cpu_usage # PyNone
    /\ \E k \in Records : /\ snifferpy_calls[k].success = PyBool(FALSE)
                          /\ snifferpy_calls[k].error_message = PyStr("division by zero")

\* C17: when two threads deliver events concurrently, the log append and
\* the completion search-and-update are mutually exclusive: at most one
\* handler is inside either section at any time, so events for different
\* functions leave the log, the table and the store as some sequential order
\* of the handlers would: whenever no handler is running, the store holds the
\* whole log.
InSection(t) == threads[t].pc \notin {"idle", "running", "done"}

C17_HandlersMutuallyExclusive ==
    /\ \A t, u \in DOMAIN threads : (InSection(t) /\ InSection(u)) => t = u
    /\ (snifferpy_calls # << >> /\ \A t \in DOMAIN threads : ~InSection(t))
           => store = Document(JsonDump(snifferpy_calls))

\* C21: an exit event that belongs to a call the frame filter excluded at
\* entry never removes a context and never modifies a record, even when a
\* traced call with the same function name is in flight.
C21_FilteredExitTouchesNothing ==
    [][ (ExitEventStep /\ HasIgnoredSegment(frames[Len(frames)].mod))
            => /\ active_calls' = active_calls
               /\ snifferpy_calls' = snifferpy_calls ]_vars

\* C22: in a single-threaded run, for each function name that has an open
\* context the call log contains at least one pending record with that name,
\* so every exit event that removes a context finds a record to complete.
C22_OpenContextHasPendingRecord ==
    \A name \in DOMAIN active_calls : PendingOf(name) # {}

\* a second call of a name is open after the first was completed by its exit
C22_Witness ==
    \E name \in DOMAIN active_calls :
        /\ PendingOf(name) # {}
        /\ \E k \in Completed : /\ snifferpy_calls[k].function = name
                                /\ completer[k] # 0
                                /\ inv[completer[k]].status = "returned"

====
